---- MODULE Spec2Model ----
(***************************************************************************)
(* automx2 generators: AppleGenerator.client_config (apple.py) and the     *)
(* shared ConfigGenerator._ldap_lookup (__init__.py).                      *)
(*                                                                         *)
(* A Python string is a sequence of atoms; an atom is either an opaque     *)
(* piece of text or one of the placeholder tokens.  A Python value is a    *)
(* record tagged with its type (t), so that None, bool, int, str, dict and *)
(* list keep apart the way isinstance() keeps them apart.  A dict is an    *)
(* ordered sequence of entries (insertion order).                          *)
(***************************************************************************)
EXTENDS Integers, Sequences, FiniteSets, TLC

\* Largest number of servers of a domain.
MaxServers == 3
\* Largest number of entries of a mapping or list drawn for _subtree.
MaxEntries == 2

----------------------------------------------------------------------------
\* Python values

PyNone == [t |-> "none"]
PyBool(b) == [t |-> "bool", b |-> b]
PyInt(i) == [t |-> "int", i |-> i]
PyStr(s) == [t |-> "str", s |-> s]
\* kids of a dict: entries [k, v]; kids of a list: entries with k = ""
PyDict(entries) == [t |-> "dict", kids |-> entries]
PyList(entries) == [t |-> "list", kids |-> entries]
Entry(k, v) == [k |-> k, v |-> v]

\* `if x:` on a value
Truthy(v) ==
    CASE v.t = "none" -> FALSE
      [] v.t = "bool" -> v.b
      [] v.t = "int" -> v.i # 0
      [] v.t = "str" -> v.s # <<>>
      [] OTHER -> v.kids # <<>>

\* data[key] = value on a dict whose keys all exist already: the entry keeps
\* its position
SetKey(d, key, value) ==
    PyDict([n \in 1..Len(d.kids) |->
            IF d.kids[n].k = key THEN Entry(key, value) ELSE d.kids[n]])

GetKey(d, key) ==
    d.kids[CHOOSE n \in 1..Len(d.kids) : d.kids[n].k = key].v

----------------------------------------------------------------------------
\* automx2.util: placeholders and unique()

PLACEHOLDER_ADDRESS == "%EMAILADDRESS%"
PLACEHOLDER_DOMAIN == "%EMAILDOMAIN%"
PLACEHOLDER_LOCALPART == "%EMAILLOCALPART%"
Placeholders == {PLACEHOLDER_ADDRESS, PLACEHOLDER_DOMAIN, PLACEHOLDER_LOCALPART}

Address(local, domain) == local \o <<"@">> \o domain

\* expand_placeholders(string, local_part, domain_part): every placeholder
\* token of the string is replaced by its value; the values are not expanded
\* again.
RECURSIVE expand_placeholders(_, _, _)
expand_placeholders(string, local, domain) ==
    IF string = <<>> THEN <<>>
    ELSE LET a == Head(string)
             r == IF a = PLACEHOLDER_ADDRESS THEN Address(local, domain)
                  ELSE IF a = PLACEHOLDER_DOMAIN THEN domain
                  ELSE IF a = PLACEHOLDER_LOCALPART THEN local
                  ELSE <<a>>
         IN r \o expand_placeholders(Tail(string), local, domain)

HasPlaceholder(s) == \E n \in 1..Len(s) : s[n] \in Placeholders

\* unique(): two fresh identifiers per request
UUID_INNER == <<"uuid-1">>
UUID_OUTER == <<"uuid-2">>

IDENTIFIER == <<"automx2">>
branded_id(id) == IDENTIFIER \o <<"-">> \o id

----------------------------------------------------------------------------
\* apple.py: maps

AUTH_MAP == [none |-> "EmailAuthNone", NTLM |-> "EmailAuthNTLM",
             plain |-> "EmailAuthPassword"]
TYPE_DIRECTION_MAP == [imap |-> "Incoming", smtp |-> "Outgoing"]

\* f'{direction}MailServer{field}'
ServerKey(direction, field) ==
    CASE direction = "Incoming" /\ field = "HostName" -> "IncomingMailServerHostName"
      [] direction = "Incoming" /\ field = "PortNumber" -> "IncomingMailServerPortNumber"
      [] direction = "Incoming" /\ field = "Username" -> "IncomingMailServerUsername"
      [] direction = "Incoming" /\ field = "Authentication" -> "IncomingMailServerAuthentication"
      [] direction = "Incoming" /\ field = "UseSSL" -> "IncomingMailServerUseSSL"
      [] direction = "Outgoing" /\ field = "HostName" -> "OutgoingMailServerHostName"
      [] direction = "Outgoing" /\ field = "PortNumber" -> "OutgoingMailServerPortNumber"
      [] direction = "Outgoing" /\ field = "Username" -> "OutgoingMailServerUsername"
      [] direction = "Outgoing" /\ field = "Authentication" -> "OutgoingMailServerAuthentication"
      [] direction = "Outgoing" /\ field = "UseSSL" -> "OutgoingMailServerUseSSL"

----------------------------------------------------------------------------
\* apple.py: _payload

PayloadInner(local, domain) ==
    LET address == Address(local, domain)
        uuid == UUID_INNER
    IN PyDict(<<
        Entry("EmailAccountDescription", PyStr(address)),
        Entry("EmailAccountName", PyNone),
        Entry("EmailAccountType", PyStr(<<"EmailTypeIMAP">>)),
        Entry("EmailAddress", PyStr(address)),
        Entry("IncomingMailServerAuthentication", PyStr(<<"EmailAuthPassword">>)),
        Entry("IncomingMailServerHostName", PyNone),
        Entry("IncomingMailServerPortNumber", PyInt(-1)),
        Entry("IncomingMailServerUseSSL", PyNone),
        Entry("IncomingMailServerUsername", PyNone),
        Entry("OutgoingMailServerAuthentication", PyStr(<<"EmailAuthPassword">>)),
        Entry("OutgoingMailServerHostName", PyNone),
        Entry("OutgoingMailServerPortNumber", PyInt(-1)),
        Entry("OutgoingMailServerUseSSL", PyNone),
        Entry("OutgoingMailServerUsername", PyNone),
        Entry("OutgoingPasswordSameAsIncomingPassword", PyBool(TRUE)),
        Entry("PayloadDescription",
              PyStr(<<"Email account configuration for ">> \o address)),
        Entry("PayloadDisplayName", PyStr(domain)),
        Entry("PayloadIdentifier", PyStr(<<"com.apple.mail.managed.">> \o uuid)),
        Entry("PayloadType", PyStr(<<"com.apple.mail.managed">>)),
        Entry("PayloadUUID", PyStr(uuid)),
        Entry("PayloadVersion", PyInt(1)),
        Entry("SMIMEEnablePerMessageSwitch", PyBool(FALSE)),
        Entry("SMIMEEnabled", PyBool(FALSE)),
        Entry("SMIMEEncryptionEnabled", PyBool(FALSE)),
        Entry("SMIMESigningEnabled", PyBool(FALSE)),
        Entry("allowMailDrop", PyBool(FALSE)),
        Entry("disableMailRecentsSyncing", PyBool(FALSE)) >>)

\* The outer dict; outer['PayloadContent'] is the list [inner].  inner is the
\* same object as that list's element, so an assignment to inner[...] is an
\* assignment inside outer (InnerOf / WithInner).
_payload(local, domain) ==
    LET uuid == UUID_OUTER
    IN PyDict(<<
        Entry("PayloadContent", PyList(<<Entry("", PayloadInner(local, domain))>>)),
        Entry("PayloadDisplayName", PyStr(<<"Mail account ">> \o domain)),
        Entry("PayloadIdentifier", PyStr(branded_id(uuid))),
        Entry("PayloadRemovalDisallowed", PyBool(FALSE)),
        Entry("PayloadType", PyStr(<<"Configuration">>)),
        Entry("PayloadUUID", PyStr(uuid)),
        Entry("PayloadVersion", PyInt(1)) >>)

InnerOf(outerTree) == GetKey(outerTree, "PayloadContent").kids[1].v

WithInner(outerTree, innerTree) ==
    SetKey(outerTree, "PayloadContent", PyList(<<Entry("", innerTree)>>))

----------------------------------------------------------------------------
\* apple.py: _sanitise.  The result is the dict as it was left (the walk
\* assigns in place) and the error raised, if any.

NoError == [kind |-> "", key |-> ""]
Error(kind, key) == [kind |-> kind, key |-> key]
Sanitised(err, data) == [err |-> err, data |-> data]

SetAt(d, n, value) ==
    [d EXCEPT !.kids = [d.kids EXCEPT ![n] = Entry(d.kids[n].k, value)]]

\* `if value is None`
IsMissing_never(value) == FALSE
IsMissing(value) == value.t = "none"

RECURSIVE SanitiseDict(_, _, _, _)
RECURSIVE SanitiseList(_, _, _, _)

\* the walk without the descent into lists
SanitiseList_skip(value, n, local, domain) == Sanitised(NoError, value)

\* `for v in value: _sanitise(v, local, domain)`, from element n on
SanitiseList(value, n, local, domain) ==
    IF n > Len(value.kids) THEN Sanitised(NoError, value)
    ELSE LET v == value.kids[n].v IN
         IF v.t # "dict"
         THEN Sanitised(Error("AttributeError", "items"), value)
         ELSE LET r == SanitiseDict(v, 1, local, domain) IN
              IF r.err # NoError
              THEN Sanitised(r.err, SetAt(value, n, r.data))
              ELSE SanitiseList(SetAt(value, n, r.data), n + 1, local, domain)

\* `for key, value in data.items()`, from entry n on
SanitiseDict(data, n, local, domain) ==
    IF n > Len(data.kids) THEN Sanitised(NoError, data)
    ELSE LET key == data.kids[n].k
             value == data.kids[n].v
         IN IF IsMissing(value)
            THEN Sanitised(Error("TypeError", key), data)
            ELSE IF value.t = "list"
            THEN LET r == SanitiseList(value, 1, local, domain) IN
                 IF r.err # NoError
                 THEN Sanitised(r.err, SetAt(data, n, r.data))
                 ELSE SanitiseDict(SetAt(data, n, r.data), n + 1, local, domain)
            ELSE IF value.t = "dict"
            THEN LET r == SanitiseDict(value, 1, local, domain) IN
                 IF r.err # NoError
                 THEN Sanitised(r.err, SetAt(data, n, r.data))
                 ELSE SanitiseDict(SetAt(data, n, r.data), n + 1, local, domain)
            ELSE IF value.t = "str"
            THEN SanitiseDict(
                     SetAt(data, n, PyStr(expand_placeholders(value.s, local, domain))),
                     n + 1, local, domain)
            ELSE SanitiseDict(data, n + 1, local, domain)

_sanitise(data, local, domain) == SanitiseDict(data, 1, local, domain)

----------------------------------------------------------------------------
\* apple.py: _subtree and the element helpers.  An Element has a tag, a text
\* and children; the helpers return the children they append to the parent.

Element(tag, text, kids) == [tag |-> tag, text |-> text, kids |-> kids]

\* str(value) of an integer
RECURSIVE Digits(_)
Digits(n) ==
    LET d == <<"0", "1", "2", "3", "4", "5", "6", "7", "8", "9">>[(n % 10) + 1]
    IN IF n < 10 THEN <<d>> ELSE Digits(n \div 10) \o <<d>>

IntToStr(i) == IF i < 0 THEN <<"-">> \o Digits(-i) ELSE Digits(i)

_bool_element(key, value) ==
    << Element("key", key, <<>>),
       Element(IF value THEN "true" ELSE "false", <<>>, <<>>) >>

_int_element(key, value) ==
    << Element("key", key, <<>>), Element("integer", IntToStr(value), <<>>) >>

\* a None value leaves the element without text
_str_element(key, value) ==
    << Element("key", key, <<>>),
       Element("string", IF value.t = "str" THEN value.s ELSE <<>>, <<>>) >>

\* isinstance(value, cls): a bool is an int too
IsInstance(value, cls) ==
    IF cls = "int" THEN value.t \in {"int", "bool"} ELSE value.t = cls

RECURSIVE _subtree(_, _)
RECURSIVE SubtreeEach(_, _, _)

\* the children appended by _subtree(p, k, v) for the entries n.. of a dict,
\* or by _subtree(p, 'dunno', v) for the elements n.. of a list
SubtreeEach(value, n, inList) ==
    IF n > Len(value.kids) THEN <<>>
    ELSE _subtree(IF inList THEN <<"dunno">> ELSE <<value.kids[n].k>>,
                  value.kids[n].v)
         \o SubtreeEach(value, n + 1, inList)

_subtree(key, value) ==
    IF IsInstance(value, "bool") THEN _bool_element(key, value.b)
    ELSE IF IsInstance(value, "dict")
    THEN << Element("dict", <<>>, SubtreeEach(value, 1, FALSE)) >>
    ELSE IF IsInstance(value, "int") THEN _int_element(key, value.i)
    ELSE IF IsInstance(value, "list")
    THEN << Element("key", key, <<>>),
            Element("array", <<>>, SubtreeEach(value, 1, TRUE)) >>
    ELSE _str_element(key, value)

\* The markup is a sequence of atoms: a tag is one atom, a text is the atoms
\* of its string.  (Text is escaped, so no text atom reads as a tag.)
StartTag(tag) ==
    CASE tag = "plist" -> "<plist version=\"1.0\">"
      [] tag = "dict" -> "<dict>"
      [] tag = "array" -> "<array>"
      [] tag = "key" -> "<key>"
      [] tag = "string" -> "<string>"
      [] tag = "integer" -> "<integer>"
      [] tag = "true" -> "<true>"
      [] tag = "false" -> "<false>"
EndTag(tag) ==
    CASE tag = "plist" -> "</plist>"
      [] tag = "dict" -> "</dict>"
      [] tag = "array" -> "</array>"
      [] tag = "key" -> "</key>"
      [] tag = "string" -> "</string>"
      [] tag = "integer" -> "</integer>"
      [] tag = "true" -> "</true>"
      [] tag = "false" -> "</false>"
EmptyTag(tag) ==
    CASE tag = "plist" -> "<plist version=\"1.0\" />"
      [] tag = "dict" -> "<dict />"
      [] tag = "array" -> "<array />"
      [] tag = "key" -> "<key />"
      [] tag = "string" -> "<string />"
      [] tag = "integer" -> "<integer />"
      [] tag = "true" -> "<true />"
      [] tag = "false" -> "<false />"

\* tostring(element): an element without text and children is written as an
\* empty tag
RECURSIVE tostring(_)
RECURSIVE ToStringEach(_, _)
ToStringEach(kids, n) ==
    IF n > Len(kids) THEN <<>>
    ELSE tostring(kids[n]) \o ToStringEach(kids, n + 1)

tostring(el) ==
    IF el.text = <<>> /\ el.kids = <<>> THEN << EmptyTag(el.tag) >>
    ELSE << StartTag(el.tag) >> \o el.text \o ToStringEach(el.kids, 1)
         \o << EndTag(el.tag) >>

----------------------------------------------------------------------------
\* apple.py: _map_socket_type, _map_authentication

_map_socket_type_ssl_only(server) == "SSL" = server.socket_type

_map_socket_type(server) ==
    "SSL" = server.socket_type \/ "STARTTLS" = server.socket_type

AuthenticationKnown(server) == server.authentication \in DOMAIN AUTH_MAP

_map_authentication(server) == AUTH_MAP[server.authentication]

TypeKnown(server) == server.type \in DOMAIN TYPE_DIRECTION_MAP

----------------------------------------------------------------------------
\* The data model (read only) and the directory service

Server(type, name, port, user_name, authentication, socket_type) ==
    [type |-> type, name |-> name, port |-> port, user_name |-> user_name,
     authentication |-> authentication, socket_type |-> socket_type]

\* The servers a domain may have: two of each direction that differ in every
\* column (between them every known authentication and socket kind), a
\* server of another type and an unknown authentication kind, an imap server
\* of an unknown authentication kind, and a row with a NULL column.
ServerPool ==
    { Server("imap", PyStr(<<"mail.example.com">>), PyInt(993),
             PyStr(<<PLACEHOLDER_ADDRESS>>), "plain", "SSL"),
      Server("imap", PyStr(<<"imap.", PLACEHOLDER_DOMAIN>>), PyInt(143),
             PyStr(<<"alice">>), "none", "STARTTLS"),
      Server("smtp", PyStr(<<"smtp.example.com">>), PyInt(587),
             PyStr(<<PLACEHOLDER_LOCALPART>>), "plain", "STARTTLS"),
      Server("smtp", PyStr(<<"relay.example.com">>), PyInt(25),
             PyStr(<<"relay">>), "NTLM", "plain"),
      Server("pop3", PyStr(<<"pop.example.com">>), PyInt(995),
             PyStr(<<"alice">>), "digest", "SSL"),
      Server("imap", PyStr(<<"mail.example.com">>), PyInt(993),
             PyStr(<<"alice">>), "digest", "SSL"),
      Server("smtp", PyStr(<<"smtp.example.com">>), PyInt(587),
             PyNone, "none", "SSL") }

RECURSIVE SeqsUpTo(_, _)
SeqsUpTo(S, n) ==
    IF n = 0 THEN {<<>>}
    ELSE LET shorter == SeqsUpTo(S, n - 1)
         IN shorter \cup { Append(q, x) : q \in { r \in shorter : Len(r) = n - 1 }, x \in S }

DomainNames == { <<"example.com">>, <<"other.org">> }

\* A Domain row: its name, whether it has a provider, its servers in order,
\* whether it has an Ldapserver.
DomainRow(name, provider, servers, ldapserver) ==
    [name |-> name, provider |-> provider, servers |-> servers,
     ldapserver |-> ldapserver]

\* Rows with a provider have up to MaxServers servers; for rows without one
\* (where the servers are never read) lists of up to one server are drawn.
DomainRows ==
    { DomainRow(<<"example.com">>, TRUE, ss, l) :
        ss \in SeqsUpTo(ServerPool, MaxServers), l \in BOOLEAN }
    \cup { DomainRow(<<"example.com">>, FALSE, ss, l) :
        ss \in SeqsUpTo(ServerPool, 1), l \in BOOLEAN }

\* Domain.query.filter_by(name=domain_part).first() on a table of one row
NoDomain == DomainRow(<<>>, FALSE, <<>>, FALSE)
QueryDomain(table, domain_part) ==
    IF table.name = domain_part THEN table ELSE NoDomain

\* automx2.ldap: LookupResult and the status tags
STATUS_SUCCESS == "success"
STATUS_NO_MATCH == "no-match"
STATUS_ERROR == "error"
LookupResult(status, cn) == [status |-> status, cn |-> cn]
NoLookupResult == LookupResult("", PyNone)

LdapCall(email_address, answer) ==
    [email_address |-> email_address, answer |-> answer]

\* What LdapAccess.lookup may answer
LookupResults ==
    { LookupResult(STATUS_ERROR, PyNone), LookupResult(STATUS_NO_MATCH, PyNone) }
    \cup { LookupResult(STATUS_SUCCESS, cn) :
             cn \in { PyNone, PyStr(<<>>), PyStr(<<"Bob B.">>),
                      PyStr(<<"Bob ", PLACEHOLDER_LOCALPART>>) } }

\* What a caller may pass
LocalParts == { <<"alice">>, <<"bob+", PLACEHOLDER_ADDRESS>> }
Realnames == { PyNone, PyStr(<<"Alice A.">>), PyStr(<<"Alice ", PLACEHOLDER_DOMAIN>>) }
Passwords == { <<"secret">> }

Request(local_part, domain_part, rn, password) ==
    [local_part |-> local_part, domain_part |-> domain_part,
     realname |-> rn, password |-> password]

----------------------------------------------------------------------------
\* One client_config request

VARIABLES
    table,          \* the data model: the Domain row
    request,        \* the arguments of client_config
    pc,             \* the step the request is at
    domain,         \* local: the Domain found
    lookup_result,  \* local: the LookupResult, or None
    ldap_calls,     \* the directory's log: each LdapAccess.lookup and its answer
    outer,          \* local: the outer dict (inner is outer['PayloadContent'][0])
    idx,            \* the position of `for server in domain.servers`
    realname,       \* local: the realname argument, reassigned at line 188
    raised,         \* the exception raised, if any
    result          \* what was returned, if anything

vars == << table, request, pc, domain, lookup_result, ldap_calls, outer, idx,
           realname, raised, result >>

NotReturned == [returned |-> FALSE, data |-> <<>>]
Returned(data) == [returned |-> TRUE, data |-> data]

Init ==
    /\ \E row \in DomainRows, d \in DomainNames, l \in LocalParts,
          rn \in Realnames, pw \in Passwords :
         /\ (d # row.name => Len(row.servers) <= 1)
         /\ table = row
         /\ request = Request(l, d, rn, pw)
         /\ realname = rn
    /\ pc = "resolve_domain"
    /\ domain = NoDomain
    /\ lookup_result = NoLookupResult
    /\ ldap_calls = <<>>
    /\ outer = PyNone
    /\ idx = 1
    /\ raised = NoError
    /\ result = NotReturned

\* `raise E(...)`: the request ends with the exception
Raise(kind, key) ==
    /\ raised' = Error(kind, key)
    /\ pc' = "done"

\* `return data`
Return(data) ==
    /\ result' = Returned(data)
    /\ pc' = "done"

\* `if not domain`
DomainMissing(d) == d = NoDomain
\* `if not provider`
ProviderMissing_never(d) == FALSE
ProviderMissing(d) == ~d.provider
\* `if not domain.servers`
ServersMissing(d) == d.servers = <<>>
\* `if domain.ldapserver`
HasLdapserver_always(d) == TRUE
HasLdapserver(d) == d.ldapserver

\* lines 162-164
ResolveDomain ==
    /\ pc = "resolve_domain"
    /\ LET d == QueryDomain(table, request.domain_part) IN
       /\ domain' = d
       /\ IF DomainMissing(d)
          THEN Raise("DomainNotFound", "")
          ELSE pc' = "resolve_provider" /\ UNCHANGED raised
    /\ UNCHANGED << table, request, lookup_result, ldap_calls, outer, idx,
                    realname, result >>

\* lines 165-167
ResolveProvider ==
    /\ pc = "resolve_provider"
    /\ IF ProviderMissing(domain)
       THEN Raise("NoProviderForDomain", "")
       ELSE pc' = "resolve_servers" /\ UNCHANGED raised
    /\ UNCHANGED << table, request, domain, lookup_result, ldap_calls, outer,
                    idx, realname, result >>

\* lines 168-169
ResolveServers ==
    /\ pc = "resolve_servers"
    /\ IF ServersMissing(domain)
       THEN Raise("NoServersForDomain", "")
       ELSE pc' = "directory" /\ UNCHANGED raised
    /\ UNCHANGED << table, request, domain, lookup_result, ldap_calls, outer,
                    idx, realname, result >>

\* _ldap_lookup, lines 43-44 of __init__.py: `if r.status == STATUS_ERROR`
LookupFailed_never(r) == FALSE
LookupFailed(r) == r.status = STATUS_ERROR
\* line 173: `if lookup_result.status == STATUS_NO_MATCH`
LookupNoMatch_never(r) == FALSE
LookupNoMatch(r) == r.status = STATUS_NO_MATCH

\* lines 170-174, with _ldap_lookup: the directory answers r
DirectoryLookup ==
    /\ pc = "directory"
    /\ HasLdapserver(domain)
    /\ \E r \in LookupResults :
         /\ ldap_calls' = Append(ldap_calls,
                LdapCall(Address(request.local_part, request.domain_part), r))
         /\ IF LookupFailed(r)
            THEN /\ Raise("LdapLookupError", "")
                 /\ UNCHANGED << lookup_result, result >>
            ELSE /\ lookup_result' = r
                 /\ IF LookupNoMatch(r)
                    THEN Return(<<>>) /\ UNCHANGED raised
                    ELSE pc' = "payload" /\ UNCHANGED << raised, result >>
    /\ UNCHANGED << table, request, domain, outer, idx, realname >>

\* lines 175-176: lookup_result = None
NoDirectory ==
    /\ pc = "directory"
    /\ ~HasLdapserver(domain)
    /\ lookup_result' = NoLookupResult
    /\ pc' = "payload"
    /\ UNCHANGED << table, request, domain, ldap_calls, outer, idx, realname,
                    raised, result >>

\* line 177
BuildPayload ==
    /\ pc = "payload"
    /\ outer' = _payload(request.local_part, request.domain_part)
    /\ idx' = 1
    /\ pc' = "fill"
    /\ UNCHANGED << table, request, domain, lookup_result, ldap_calls,
                    realname, raised, result >>

\* lines 182-186 for a server of a known type and authentication
FillInner(inner, server) ==
    LET direction == TYPE_DIRECTION_MAP[server.type]
        i1 == SetKey(inner, ServerKey(direction, "HostName"), server.name)
        i2 == SetKey(i1, ServerKey(direction, "PortNumber"), server.port)
        i3 == SetKey(i2, ServerKey(direction, "Username"), server.user_name)
        i4 == SetKey(i3, ServerKey(direction, "Authentication"),
                     PyStr(<<_map_authentication(server)>>))
    IN SetKey(i4, ServerKey(direction, "UseSSL"), PyBool(_map_socket_type(server)))

\* The loop with the authentication kind looked at before the type.
FillServer_AuthFirst ==
    /\ pc = "fill"
    /\ idx <= Len(domain.servers)
    /\ LET server == domain.servers[idx] IN
       IF ~AuthenticationKnown(server)
       THEN /\ Raise("InvalidAuthenticationType", server.authentication)
            /\ UNCHANGED << outer, idx >>
       ELSE IF ~TypeKnown(server)
       THEN Raise("InvalidServerType", server.type) /\ UNCHANGED << outer, idx >>
       ELSE /\ outer' = WithInner(outer, FillInner(InnerOf(outer), server))
            /\ idx' = idx + 1
            /\ pc' = IF idx = Len(domain.servers) THEN "realname" ELSE "fill"
            /\ UNCHANGED raised
    /\ UNCHANGED << table, request, domain, lookup_result, ldap_calls,
                    realname, result >>

\* lines 178-186: one pass of the loop.  InvalidAuthenticationType is raised
\* after host, port and user name were assigned.
FillServer ==
    /\ pc = "fill"
    /\ idx <= Len(domain.servers)
    /\ LET server == domain.servers[idx] IN
       IF ~TypeKnown(server)
       THEN Raise("InvalidServerType", server.type) /\ UNCHANGED << outer, idx >>
       ELSE IF ~AuthenticationKnown(server)
       THEN LET direction == TYPE_DIRECTION_MAP[server.type]
                i1 == SetKey(InnerOf(outer), ServerKey(direction, "HostName"), server.name)
                i2 == SetKey(i1, ServerKey(direction, "PortNumber"), server.port)
                i3 == SetKey(i2, ServerKey(direction, "Username"), server.user_name)
            IN /\ outer' = WithInner(outer, i3)
               /\ Raise("InvalidAuthenticationType", server.authentication)
               /\ UNCHANGED idx
       ELSE /\ outer' = WithInner(outer, FillInner(InnerOf(outer), server))
            /\ idx' = idx + 1
            /\ pc' = IF idx = Len(domain.servers) THEN "realname" ELSE "fill"
            /\ UNCHANGED raised
    /\ UNCHANGED << table, request, domain, lookup_result, ldap_calls,
                    realname, result >>

\* lines 187-188: the name the account gets
ResolvedRealname_keep(rn, r) == rn
ResolvedRealname(rn, r) ==
    IF r # NoLookupResult /\ Truthy(r.cn) THEN r.cn ELSE rn

\* lines 187-189
ResolveRealname ==
    /\ pc = "realname"
    /\ realname' = ResolvedRealname(realname, lookup_result)
    /\ outer' = WithInner(outer, SetKey(InnerOf(outer), "EmailAccountName", realname'))
    /\ pc' = "sanitise"
    /\ UNCHANGED << table, request, domain, lookup_result, ldap_calls, idx,
                    raised, result >>

\* line 190
Sanitise ==
    /\ pc = "sanitise"
    /\ LET r == _sanitise(outer, request.local_part, request.domain_part) IN
       /\ outer' = r.data
       /\ IF r.err # NoError
          THEN Raise(r.err.kind, r.err.key)
          ELSE pc' = "serialise" /\ UNCHANGED raised
    /\ UNCHANGED << table, request, domain, lookup_result, ldap_calls, idx,
                    realname, result >>

\* lines 191-194
Document(outerTree) ==
    tostring(Element("plist", <<>>, _subtree(<<>>, outerTree)))

Serialise ==
    /\ pc = "serialise"
    /\ Return(Document(outer))
    /\ UNCHANGED << table, request, domain, lookup_result, ldap_calls, outer,
                    idx, realname, raised >>

Next ==
    \/ ResolveDomain
    \/ ResolveProvider
    \/ ResolveServers
    \/ DirectoryLookup
    \/ NoDirectory
    \/ BuildPayload
    \/ FillServer
    \/ ResolveRealname
    \/ Sanitise
    \/ Serialise

Spec == Init /\ [][Next]_vars

----------------------------------------------------------------------------
\* The serialiser on its own: lines 191-194 applied to a payload tree drawn
\* from the trees the serialiser accepts (values: boolean, integer, string,
\* mapping, list of mappings).

TreeKeys == << "a", "b", "c", "d" >>
Leaves == { PyBool(TRUE), PyInt(7), PyStr(<<"x">>) }

\* the mappings (or, keyed "", the lists) of up to n entries with values in V
EntrySeqs(V, n, keyed) ==
    { [m \in 1..Len(q) |-> Entry(IF keyed THEN TreeKeys[m] ELSE "", q[m])] :
        q \in SeqsUpTo(V, n) }

FlatDicts == { PyDict(e) : e \in EntrySeqs(Leaves, MaxEntries, TRUE) }
SmallDicts == { PyDict(e) : e \in EntrySeqs(Leaves, 1, TRUE) }
Lists == { PyList(e) : e \in EntrySeqs(SmallDicts, MaxEntries, FALSE) }
Trees == { PyDict(e) :
             e \in EntrySeqs(Leaves \cup FlatDicts \cup Lists, MaxEntries, TRUE) }

InitSubtree ==
    /\ table = DomainRow(<<"example.com">>, TRUE, <<>>, FALSE)
    /\ request = Request(<<"alice">>, <<"example.com">>, PyNone, <<"secret">>)
    /\ realname = PyNone
    /\ pc = "serialise"
    /\ domain = NoDomain
    /\ lookup_result = NoLookupResult
    /\ ldap_calls = <<>>
    /\ outer \in Trees
    /\ idx = 1
    /\ raised = NoError
    /\ result = NotReturned

NextSubtree == Serialise

SpecSubtree == InitSubtree /\ [][NextSubtree]_vars

----------------------------------------------------------------------------
\* What the properties below speak of

Done == pc = "done"
ReturnedDocument == Done /\ result.returned /\ result.data # <<>>
ReturnedEmpty == Done /\ result.returned /\ result.data = <<>>

\* The data model has the requested domain, with a provider and servers
DomainPresent == table.name = request.domain_part
Resolved == DomainPresent /\ table.provider /\ table.servers # <<>>

\* The directory answered with this status
Answered(status) ==
    \E n \in 1..Len(ldap_calls) : ldap_calls[n].answer.status = status

\* The directory step is over and did not end the request
DirectoryPassed ==
    IF table.ldapserver
    THEN Len(ldap_calls) = 1 /\ ldap_calls[1].answer.status = STATUS_SUCCESS
    ELSE pc \notin {"resolve_domain", "resolve_provider", "resolve_servers",
                    "directory"}

\* C1: a domain missing from the data model fails with DomainNotFound; a
\* domain without provider fails with NoProviderForDomain, with or without
\* servers; a domain with a provider and no server fails with
\* NoServersForDomain.  In each case the directory is never asked, no
\* payload is built and nothing is returned.
C1_ResolutionOrder ==
    LET fails(kind) ==
            /\ ldap_calls = <<>>
            /\ outer = PyNone
            /\ ~result.returned
            /\ pc \in {"resolve_domain", "resolve_provider", "resolve_servers", "done"}
            /\ Done => raised.kind = kind
    IN /\ ~DomainPresent => fails("DomainNotFound")
       /\ DomainPresent /\ ~table.provider => fails("NoProviderForDomain")
       /\ DomainPresent /\ table.provider /\ table.servers = <<>>
            => fails("NoServersForDomain")

C1_Witness ==
    /\ Done
    /\ raised.kind = "NoProviderForDomain"
    /\ DomainPresent /\ table.servers = <<>> /\ table.ldapserver

\* C2: once the directory has answered "no-match", the request is over, it
\* returned the empty string and raised nothing, whatever the servers, the
\* local part and the realname are.
C2_NoMatchReturnsEmpty ==
    Answered(STATUS_NO_MATCH) =>
        /\ Resolved /\ table.ldapserver
        /\ ReturnedEmpty
        /\ raised = NoError
        /\ outer = PyNone

C2_Witness ==
    /\ Answered(STATUS_NO_MATCH)
    /\ ReturnedEmpty
    /\ request.realname = PyNone
    /\ HasPlaceholder(request.local_part)
    /\ \E n \in 1..Len(table.servers) :
         ~TypeKnown(table.servers[n]) /\ ~AuthenticationKnown(table.servers[n])
    /\ \A n \in 1..Len(table.servers) : table.servers[n].type # "smtp"

\* C3: once the directory has answered "error", the request is over with
\* LdapLookupError: the directory was asked once, no payload was built and
\* nothing was returned.
C3_LookupErrorIsFatal ==
    Answered(STATUS_ERROR) =>
        /\ Resolved /\ table.ldapserver
        /\ Done
        /\ raised.kind = "LdapLookupError"
        /\ Len(ldap_calls) = 1
        /\ outer = PyNone
        /\ ~result.returned

C3_Witness ==
    /\ Answered(STATUS_ERROR)
    /\ raised.kind = "LdapLookupError"
    /\ \E n \in 1..Len(table.servers) : ~TypeKnown(table.servers[n])

----------------------------------------------------------------------------
\* Reading the returned markup

\* the key element of key k starts at position n
KeyAt(doc, n, k) ==
    n + 3 <= Len(doc) /\ doc[n] = "<key>" /\ doc[n + 1] = k /\ doc[n + 2] = "</key>"

\* the markup of the value element that follows key k (a leaf element)
ValueOfKey(doc, k) ==
    LET n == (CHOOSE m \in 1..Len(doc) : KeyAt(doc, m, k)) + 3
        closing == { "</string>", "</integer>" }
        end == CHOOSE e \in n..Len(doc) :
                 /\ doc[e] \in closing
                 /\ \A j \in n..(e - 1) : doc[j] \notin closing
    IN IF doc[n] \in { "<string />", "<integer />", "<true />", "<false />" }
       THEN << doc[n] >>
       ELSE SubSeq(doc, n, end)

StringMarkup(s) ==
    IF s = <<>> THEN << "<string />" >> ELSE << "<string>" >> \o s \o << "</string>" >>
IntegerMarkup(i) == << "<integer>" >> \o IntToStr(i) \o << "</integer>" >>
BooleanMarkup(b) == IF b THEN << "<true />" >> ELSE << "<false />" >>

Expanded(s) == expand_placeholders(s, request.local_part, request.domain_part)

BadType(server) == server.type \notin {"imap", "smtp"}
BadAuthentication(server) == server.authentication \notin {"none", "NTLM", "plain"}
Servers == table.servers

\* C4 as stated: with a payload under construction, a server of a type
\* outside {imap, smtp} anywhere among the servers makes the request fail
\* with InvalidServerType, and a server of an authentication kind outside
\* {none, NTLM, plain} anywhere makes it fail with
\* InvalidAuthenticationType.
C4_AsStated ==
    Done /\ Resolved /\ DirectoryPassed =>
        /\ (\E n \in 1..Len(Servers) : BadType(Servers[n]))
              => raised.kind = "InvalidServerType"
        /\ (\E n \in 1..Len(Servers) : BadAuthentication(Servers[n]))
              => raised.kind = "InvalidAuthenticationType"

\* C4 (amended): the first server in order that has an unknown type or an
\* unknown authentication kind decides the error: InvalidServerType if its
\* type is unknown (whatever its authentication kind), otherwise
\* InvalidAuthenticationType; nothing is returned.
C4_FirstOffenderDecides ==
    LET bad == { n \in 1..Len(Servers) :
                   BadType(Servers[n]) \/ BadAuthentication(Servers[n]) }
    IN Done /\ Resolved /\ DirectoryPassed /\ bad # {} =>
         LET first == CHOOSE n \in bad : \A m \in bad : n <= m IN
         /\ ~result.returned
         /\ raised = IF BadType(Servers[first])
                     THEN Error("InvalidServerType", Servers[first].type)
                     ELSE Error("InvalidAuthenticationType",
                                Servers[first].authentication)

C4_Witness ==
    /\ Done /\ Resolved /\ DirectoryPassed
    /\ raised.kind = "InvalidAuthenticationType"
    /\ Len(Servers) = 3
    /\ ~BadType(Servers[1]) /\ ~BadAuthentication(Servers[1])
    /\ BadAuthentication(Servers[2]) /\ ~BadType(Servers[2])
    /\ BadType(Servers[3])

\* the common name the directory returned, if it was asked
LookupCn == IF ldap_calls # <<>> THEN ldap_calls[1].answer.cn ELSE PyNone

\* C5 as stated: in a returned document EmailAccountName is exactly the
\* common name the lookup returned, and the caller's realname when there
\* was no lookup or no common name (an empty one counts as none).
C5_AsStated ==
    ReturnedDocument =>
        ValueOfKey(result.data, "EmailAccountName")
          = StringMarkup(IF LookupCn # PyNone /\ LookupCn.s # <<>>
                         THEN LookupCn.s
                         ELSE request.realname.s)

\* C5 (amended): in a returned document EmailAccountName is the placeholder
\* expansion of the common name when the lookup returned a non-empty one,
\* and the placeholder expansion of the caller's realname otherwise.
C5_AccountNameExpanded ==
    ReturnedDocument =>
        ValueOfKey(result.data, "EmailAccountName")
          = StringMarkup(Expanded(IF LookupCn # PyNone /\ LookupCn.s # <<>>
                                  THEN LookupCn.s
                                  ELSE request.realname.s))

C5_Witness ==
    /\ ReturnedDocument
    /\ LookupCn # PyNone
    /\ HasPlaceholder(LookupCn.s)
    /\ request.realname # PyNone
    /\ ValueOfKey(result.data, "EmailAccountName") # StringMarkup(LookupCn.s)
    /\ ValueOfKey(result.data, "EmailAccountName") # StringMarkup(request.realname.s)

\* the last server of the type that maps to a direction
TypeOf(direction) == IF direction = "Incoming" THEN "imap" ELSE "smtp"
LastOf(direction) ==
    LET of == { n \in 1..Len(Servers) : Servers[n].type = TypeOf(direction) }
    IN Servers[CHOOSE n \in of : \A m \in of : m <= n]

\* C9: in a returned document the five server fields of each direction are
\* those of the last server of that direction: host name and user name (as
\* expanded by the sanitisation), port, the mapped authentication kind, and
\* UseSSL true exactly for the socket kinds SSL and STARTTLS.
C9_LastServerWins ==
    ReturnedDocument =>
        \A direction \in {"Incoming", "Outgoing"} :
            LET server == LastOf(direction)
                value(field) == ValueOfKey(result.data, ServerKey(direction, field))
            IN /\ value("HostName") = StringMarkup(Expanded(server.name.s))
               /\ value("PortNumber") = IntegerMarkup(server.port.i)
               /\ value("Username") = StringMarkup(Expanded(server.user_name.s))
               /\ value("Authentication") = StringMarkup(
                     CASE server.authentication = "none" -> <<"EmailAuthNone">>
                       [] server.authentication = "NTLM" -> <<"EmailAuthNTLM">>
                       [] server.authentication = "plain" -> <<"EmailAuthPassword">>)
               /\ value("UseSSL") = BooleanMarkup(server.socket_type \in {"SSL", "STARTTLS"})

\* two imap servers, the smtp server between them: the second imap server
\* is the one in the document
C9_Witness ==
    /\ ReturnedDocument
    /\ Len(Servers) = 3
    /\ Servers[1].type = "imap" /\ Servers[2].type = "smtp" /\ Servers[3].type = "imap"
    /\ Servers[1] # Servers[3]
    /\ Servers[2].socket_type = "STARTTLS"
    /\ ValueOfKey(result.data, "IncomingMailServerPortNumber")
         = IntegerMarkup(Servers[3].port.i)
    /\ ValueOfKey(result.data, "OutgoingMailServerUseSSL") = << "<true />" >>

\* the keys under which a tree holds None
RECURSIVE NullKeys(_)
NullKeys(v) ==
    IF v.t \in {"dict", "list"}
    THEN UNION { IF v.kids[n].v.t = "none" THEN { v.kids[n].k }
                 ELSE NullKeys(v.kids[n].v) : n \in 1..Len(v.kids) }
    ELSE {}

\* C6: no tree with a None leaf reaches the serialisation; when a leaf is
\* still None after the fill and the realname resolution the request fails
\* with the TypeError that names a key holding None, and returns nothing; a
\* document is returned only if an imap and an smtp server were processed.
C6_NoNullSerialised ==
    /\ pc = "serialise" => NullKeys(outer) = {}
    /\ ReturnedDocument =>
         /\ NullKeys(outer) = {}
         /\ \E n \in 1..Len(Servers) : Servers[n].type = "imap"
         /\ \E n \in 1..Len(Servers) : Servers[n].type = "smtp"
    /\ ( /\ Done /\ outer # PyNone
         /\ raised.kind \notin {"InvalidServerType", "InvalidAuthenticationType"}
         /\ NullKeys(outer) # {} )
       => /\ raised.kind = "TypeError"
          /\ raised.key \in NullKeys(outer)
          /\ ~result.returned

\* only imap servers, a realname given: the outgoing host name is missing
C6_Witness ==
    /\ Done
    /\ raised = Error("TypeError", "OutgoingMailServerHostName")
    /\ request.realname # PyNone
    /\ Len(Servers) = 2
    /\ \A n \in 1..Len(Servers) : Servers[n].type = "imap"

NoPlaceholderIn(doc) == \A n \in 1..Len(doc) : doc[n] \notin Placeholders

RECURSIVE ExpandedTree(_, _)
ExpandedTree(before, after) ==
    IF before.t = "str" THEN after = PyStr(Expanded(before.s))
    ELSE IF before.t \in {"dict", "list"}
    THEN /\ after.t = before.t
         /\ Len(after.kids) = Len(before.kids)
         /\ \A n \in 1..Len(before.kids) :
              /\ after.kids[n].k = before.kids[n].k
              /\ ExpandedTree(before.kids[n].v, after.kids[n].v)
    ELSE after = before

Rank(p) ==
    CASE p = "resolve_domain" -> 1
      [] p = "resolve_provider" -> 2
      [] p = "resolve_servers" -> 3
      [] p = "directory" -> 4
      [] p = "payload" -> 5
      [] p = "fill" -> 6
      [] p = "realname" -> 7
      [] p = "sanitise" -> 8
      [] p = "serialise" -> 9
      [] p = "done" -> 10

\* C10: a request moves forward only (the loop over the servers moves to
\* the next server), asks the directory at most once, at the directory step
\* of a resolved domain that has a directory server; a payload exists only
\* after the directory step ended without no-match or error; a finished
\* request has either returned or raised, never both; the empty string is
\* returned only after a no-match.
C10_LinearRun ==
    /\ [][ /\ \/ Rank(pc') > Rank(pc)
              \/ pc = "fill" /\ pc' = "fill" /\ idx' = idx + 1
           /\ ldap_calls' # ldap_calls =>
                /\ pc = "directory" /\ table.ldapserver /\ Resolved
                /\ ldap_calls = <<>> /\ Len(ldap_calls') = 1 ]_vars
    /\ []( /\ Len(ldap_calls) <= 1
           /\ (outer # PyNone \/ Rank(pc) \in 5..9 \/ ReturnedDocument)
                => Resolved /\ DirectoryPassed
           /\ ~Done => ~result.returned /\ raised = NoError
           /\ Done => (result.returned <=> raised = NoError)
           /\ ReturnedEmpty => Answered(STATUS_NO_MATCH) )

C10_Witness ==
    /\ ReturnedDocument
    /\ Len(ldap_calls) = 1
    /\ raised = NoError

\* What the claim says _subtree writes for a value: a leaf as its value
\* element, a mapping as a dict container holding, for each entry in order,
\* the key element and then the value's markup, a list as an array holding
\* its elements' markup without keys.
Container(tag, inside) ==
    IF inside = <<>> THEN << EmptyTag(tag) >>
    ELSE << StartTag(tag) >> \o inside \o << EndTag(tag) >>

RECURSIVE ClaimedValue(_)
RECURSIVE ClaimedEach(_, _)
ClaimedEach(value, n) ==
    IF n > Len(value.kids) THEN <<>>
    ELSE (IF value.t = "dict" THEN << "<key>", value.kids[n].k, "</key>" >> ELSE <<>>)
         \o ClaimedValue(value.kids[n].v) \o ClaimedEach(value, n + 1)

ClaimedValue(value) ==
    CASE value.t = "bool" -> BooleanMarkup(value.b)
      [] value.t = "int" -> IntegerMarkup(value.i)
      [] value.t = "str" -> StringMarkup(value.s)
      [] value.t = "dict" -> Container("dict", ClaimedEach(value, 1))
      [] value.t = "list" -> Container("array", ClaimedEach(value, 1))

\* C8: the markup written for a payload tree has one value element per
\* leaf, in insertion order, and every keyed value (a boolean, an integer,
\* a string, a nested mapping, a list) is written as its key element
\* followed by its value element.
C8_KeyedValues ==
    ReturnedDocument =>
        result.data = Container("plist", ClaimedValue(outer))

====
